---- MODULE Spec2Model ----
(***************************************************************************)
(* A model of joplin-console.py: the interactive session loop              *)
(* (interactive_browser), its navigation state, the identifier resolution  *)
(* of `cd` and of find_note_in_context, the input backends behind          *)
(* safe_input, and the raw-mode line reader get_terminal_raw_input.        *)
(*                                                                         *)
(* Strings of the program are sequences of one-character strings, so that  *)
(* str.startswith and str.split are computed, not assumed.  Python's None  *)
(* and the empty string are both the empty sequence: the code tests the    *)
(* current folder by truthiness (`if current_folder_id:`), and the storage *)
(* marks a root-level folder by parent_id = ''.                            *)
(***************************************************************************)
EXTENDS Integers, Sequences, FiniteSets, TLC

VARIABLES
    folders,            \* storage: rows of table `folders`, in rowid order
    notes,              \* storage: rows of table `notes`, in rowid order
    READLINE_AVAILABLE, \* module flag set by `import readline`
    HAVE_TERMIOS,       \* whether `import tty, termios` succeeds
    stdin_tty,          \* whether standard input is a terminal
    WRITE_MODE,         \* module flag set from --write
    current_folder_id,  \* interactive_browser local
    history,            \* interactive_browser local: the back-stack
    prompt,             \* interactive_browser local: path_parts of the prompt
    pc,                 \* "prompt" | "input" | "done": position in the loop
    cmd,                \* the line safe_input returned last, split
    event,              \* what the user did at the last read
    out,                \* what the last command printed
    before,             \* current_folder_id when the last command started
    before_history,     \* the back-stack when the last command started
    stdin_eof,          \* standard input has reached end-of-file
    db_open,            \* the sqlite connection is open
    exit_cause,         \* why interactive_browser was left
    term_mode,          \* terminal line discipline: "cooked" | "raw"
    old_settings,       \* get_terminal_raw_input local: the saved settings
    rd_pc,              \* position inside get_terminal_raw_input
    current_input,      \* global: the edit buffer
    cursor_position,    \* global: the cursor index
    command_history,    \* global: accepted lines
    rd_ret,             \* value the read call returned
    rd_via,             \* how the read call ended
    rd_ch,              \* get_terminal_raw_input: the byte read(1) gave last
    rd_next1,           \* get_terminal_raw_input local next1, while it is live
    screen,             \* the terminal: the cells of the row the cursor is in
    column,             \* the terminal: the cursor column, counted from 0
    walk_pc,            \* position inside the walk that builds the prompt path
    walk_fid,           \* the walk's local fid
    walk_parts,         \* the walk's local path_parts, before the reverse
    disk,               \* the filesystem below the export directory
    ex_pc,              \* position of the export: "idle" | "run" | "done" | "failed"
    ex_stack,           \* the calls of export_notebook_recursive that are open
    ex_log,             \* what the running export created so far, in order
    ex_format,          \* --export-format
    ex_meta,            \* --include-metadata
    ex_runs,            \* exports that ran to their end
    disk_first          \* the filesystem as the first finished export left it

navVars == <<current_folder_id, history>>
envVars == <<READLINE_AVAILABLE, HAVE_TERMIOS, stdin_tty, WRITE_MODE>>
sessVars == <<prompt, pc, cmd, event, out, before, before_history, stdin_eof, db_open,
              exit_cause>>
readVars == <<term_mode, old_settings, rd_pc, current_input, cursor_position, command_history,
              rd_ret, rd_via, rd_ch, rd_next1, screen, column>>
walkVars == <<walk_pc, walk_fid, walk_parts>>
exportVars == <<disk, ex_pc, ex_stack, ex_log, ex_format, ex_meta, ex_runs, disk_first>>
vars == <<folders, notes, envVars, navVars, sessVars, readVars, walkVars, exportVars>>

None == <<>>

(***************************************************************************)
(* Bounds of the model.                                                    *)
(***************************************************************************)
\* the back-stack is unbounded in the code; commands that would push beyond
\* this length are not issued
MaxHistory == 1
\* the raw-mode reader's buffer is filled up to this length
MaxBuffer == 2
\* the raw-mode reader accepts lines until its history holds this many
MaxLines == 2
\* a read is started only while its prompt ends within this many columns
Width == 18
\* lines are typed until the history holds this many
MaxAccepted == 101
\* the walk that builds the prompt path records at most this many titles
MaxWalk == 4

(***************************************************************************)
(* Strings.                                                                *)
(***************************************************************************)
\* str.startswith
StartsWith(s, p) == Len(p) <= Len(s) /\ SubSeq(s, 1, Len(p)) = p

\* '/' in s
HasSlash(s) == \E i \in 1..Len(s) : s[i] = "/"

\* index of the first '/'
FirstSlash(s) == CHOOSE i \in 1..Len(s) : s[i] = "/" /\ \A j \in 1..(i-1) : s[j] # "/"

\* s.split('/', 1)
SplitSlash(s) ==
    [head |-> SubSeq(s, 1, FirstSlash(s) - 1),
     tail |-> SubSeq(s, FirstSlash(s) + 1, Len(s))]

\* characters in ascending code-point order (the collation of ORDER BY title)
CharOrder == <<"*", ".", "/", ":", "D", "H", "P", "S", "T", "W", "d", "m">>
Code(c) == CHOOSE i \in 1..Len(CharOrder) : CharOrder[i] = c

RECURSIVE StrLeq(_, _)
\* s <= t in the binary collation
StrLeq(s, t) ==
    IF s = <<>> THEN TRUE
    ELSE IF t = <<>> THEN FALSE
    ELSE IF Code(Head(s)) < Code(Head(t)) THEN TRUE
    ELSE IF Code(Head(s)) > Code(Head(t)) THEN FALSE
    ELSE StrLeq(Tail(s), Tail(t))

RECURSIVE InsertByTitle(_, _)
InsertByTitle(row, sorted) ==
    IF sorted = <<>> THEN <<row>>
    ELSE IF StrLeq(Head(sorted).title, row.title)
         THEN <<Head(sorted)>> \o InsertByTitle(row, Tail(sorted))
         ELSE <<row>> \o sorted

RECURSIVE OrderByTitle(_)
\* ORDER BY title (rows of equal title stay in rowid order)
OrderByTitle(rows) ==
    IF rows = <<>> THEN <<>>
    ELSE InsertByTitle(rows[Len(rows)], OrderByTitle(SubSeq(rows, 1, Len(rows) - 1)))

Ids(rows) == [i \in 1..Len(rows) |-> rows[i].id]
Range(s) == {s[i] : i \in 1..Len(s)}

(***************************************************************************)
(* Storage contents.  Three folders and three notes, in two layouts: a     *)
(* tree (the third folder below the first, two notes sharing a prefix in   *)
(* the first folder) and a flat one (all folders at root level, the        *)
(* second note in the second folder).                                      *)
(***************************************************************************)
FA == <<"a", "a">>
FB == <<"a", "b">>
FC == <<"b", "a">>
NA == <<"c", "a">>
NB == <<"c", "b">>
ND == <<"d", "a">>

FolderRow(i, t, p) == [id |-> i, title |-> t, parent_id |-> p]
NoteRow(i, t, b, p) == [id |-> i, title |-> t, body |-> b, parent_id |-> p]

OrigBody == <<"P">>
EditedBody == <<"S">>

Layout(pc3, pn2) ==
    [folders |-> << FolderRow(FA, <<"W">>, <<>>),
                    FolderRow(FB, <<"H">>, <<>>),
                    FolderRow(FC, <<"D">>, pc3) >>,
     notes   |-> << NoteRow(NA, <<"T">>, OrigBody, FA),
                    NoteRow(NB, <<"P">>, OrigBody, pn2),
                    NoteRow(ND, <<"D">>, OrigBody, FC) >>]

Storages == { Layout(FA, FA), Layout(<<>>, FB) }

(***************************************************************************)
(* JoplinDB: the queries the session issues.                               *)
(***************************************************************************)
\* the rows in rowid order, as a query without ORDER BY gives them
get_folders_unordered(tbl, parent_id) ==
    LET Child(f) == f.parent_id = parent_id
    IN  SelectSeq(tbl, Child)

\* JoplinDB.get_folders(parent_id): parent_id None selects parent_id = ''
get_folders(tbl, parent_id) ==
    LET Child(f) == f.parent_id = parent_id
    IN  OrderByTitle(SelectSeq(tbl, Child))

\* JoplinDB.get_note(note_id): the row whose id equals note_id, or None
get_note(tbl, note_id) ==
    LET Same(n) == n.id = note_id
        rows == SelectSeq(tbl, Same)
    IN  IF rows = <<>> THEN None ELSE rows[1].id

\* JoplinDB.get_notes_in_folder(folder_id)
get_notes_in_folder(tbl, folder_id) ==
    LET In(n) == n.parent_id = folder_id
    IN  OrderByTitle(SelectSeq(tbl, In))

\* JoplinDB.search_notes(term): the storage's full-text MATCH.  A note matches
\* a term that is its title or its body; an unbalanced double quote is a term
\* the MATCH syntax rejects, and the query raises sqlite3.OperationalError.
search_notes(tbl, term) ==
    LET Hit(n) == term = n.title \/ term = n.body
    IN  IF term = <<"\"">>
        THEN [exc |-> "OperationalError", rows |-> <<>>]
        ELSE [exc |-> "none", rows |-> Ids(SelectSeq(tbl, Hit))]

(***************************************************************************)
(* TreeNavigator: `cd`.                                                    *)
(***************************************************************************)
Msg(m, ids) == [msg |-> m, ids |-> ids]
Nav(cur, hist, m, ids) == [current |-> cur, history |-> hist, msg |-> m, ids |-> ids]

\* a resolver that looks at every folder of the storage, not at the children
\* of the current one
cd_candidates_any(tbl, cur, arg) ==
    LET Pre(f) == StartsWith(f.id, arg)
    IN  Ids(SelectSeq(OrderByTitle(tbl), Pre))

\* candidates = [f for f in db.get_folders(current_folder_id)
\*               if f["id"].startswith(arg)]
cd_candidates(tbl, cur, arg) ==
    LET Pre(f) == StartsWith(f.id, arg)
    IN  Ids(SelectSeq(get_folders(tbl, cur), Pre))

\* cd ..
cd_up(cur, hist) ==
    IF hist # <<>>
    THEN Nav(hist[Len(hist)], SubSeq(hist, 1, Len(hist) - 1),
             "Going back to parent folder", <<>>)
    ELSE Nav(None, hist, "Going back to root level", <<>>)

\* a `cd /` that forgets where it came from
cd_root_reset(cur, hist) == Nav(None, hist, "Going to root level", <<>>)

\* a `cd /` that puts whatever is current on the back-stack
cd_root_push(cur, hist) == Nav(None, Append(hist, cur), "Going to root level", <<>>)

\* cd /
cd_root(cur, hist) ==
    Nav(None, IF cur # None THEN Append(hist, cur) ELSE hist,
        "Going to root level", <<>>)

\* a `cd` that enters the first of several candidates
cd_enter_first(tbl, cur, hist, arg) ==
    LET candidates == cd_candidates(tbl, cur, arg)
    IN  IF Len(candidates) >= 1
        THEN Nav(candidates[1], IF cur # None THEN Append(hist, cur) ELSE hist,
                 "Entered", candidates)
        ELSE Nav(cur, hist, "Folder not found.", <<>>)

\* cd <folder-id>
cd_enter(tbl, cur, hist, arg) ==
    LET candidates == cd_candidates(tbl, cur, arg)
    IN  IF Len(candidates) = 1
        THEN Nav(candidates[1], IF cur # None THEN Append(hist, cur) ELSE hist,
                 "Entered", candidates)
        ELSE IF Len(candidates) > 1
        THEN Nav(cur, hist, "Ambiguous ID - matches:", candidates)
        ELSE Nav(cur, hist, "Folder not found.", <<>>)

\* the `cd` branch of the loop
cd(tbl, cur, hist, arg) ==
    IF arg = <<".", ".">> THEN cd_up(cur, hist)
    ELSE IF arg = <<"/">> THEN cd_root(cur, hist)
    ELSE IF arg = <<>> THEN Nav(cur, hist, "Usage: cd", <<>>)
    ELSE cd_enter(tbl, cur, hist, arg)

\* a lookup among all folders of the storage
walk_find_any(tbl, fid) ==
    LET Same(f) == f.id = fid
    IN  SelectSeq(tbl, Same)

\* line 501: next((f for f in db.get_folders() if f["id"] == fid), None);
\* get_folders() without an argument gives the root-level folders
walk_find(tbl, fid) ==
    LET Same(f) == f.id = fid
    IN  SelectSeq(get_folders(tbl, None), Same)

RECURSIVE path_walk(_, _)
\* the prompt's walk: while fid: look fid up in db.get_folders(), stop when it
\* is not there, else record its title and go on with its parent_id
path_walk(tbl, fid) ==
    IF fid = None THEN <<>>
    ELSE LET found == walk_find(tbl, fid)
         IN  IF found = <<>> THEN <<>>
             ELSE <<found[1].title>> \o path_walk(tbl, found[1].parent_id)

Reverse(s) == [i \in 1..Len(s) |-> s[Len(s) + 1 - i]]

\* path_parts after path_parts.reverse(); empty stands for "(root)"
path_parts(tbl, cur) == Reverse(path_walk(tbl, cur))

(***************************************************************************)
(* IdentifierResolver: find_note_in_context.                               *)
(***************************************************************************)
Found(n, m, ids) == [note |-> n, msg |-> m, ids |-> ids]

\* notebook_folder = next((f for f in db.get_folders()
\*                         if f["id"].startswith(notebook_id)), None)
notebook_folder(tbl, notebook_id) ==
    LET Pre(f) == StartsWith(f.id, notebook_id)
        m == SelectSeq(get_folders(tbl, None), Pre)
    IN  IF m = <<>> THEN None ELSE m[1].id

\* the branch for 'notebook-id/note-id'
find_qualified(ftbl, ntbl, arg) ==
    LET notebook_id == SplitSlash(arg).head
        note_id == SplitSlash(arg).tail
        nb == notebook_folder(ftbl, notebook_id)
        Pre(n) == StartsWith(n.id, note_id)
        matching == Ids(SelectSeq(get_notes_in_folder(ntbl, nb), Pre))
    IN  IF nb = None THEN Found(None, "Notebook not found.", <<>>)
        ELSE IF Len(matching) = 1 THEN Found(matching[1], "", <<>>)
        ELSE IF Len(matching) > 1
        THEN Found(None, "Ambiguous note ID - multiple notes match:", matching)
        ELSE Found(None, "Note not found in notebook.", <<nb>>)

\* a bare-token lookup whose prefix match runs over every note of the storage
find_bare_global(ntbl, cur, note_id) ==
    LET note == get_note(ntbl, note_id)
        Pre(n) == StartsWith(n.id, note_id)
        matching == Ids(SelectSeq(OrderByTitle(ntbl), Pre))
    IN  IF note = None
        THEN IF Len(matching) = 1 THEN Found(matching[1], "", <<>>)
             ELSE IF Len(matching) > 1
             THEN Found(None, "Ambiguous ID - multiple notes match:", matching)
             ELSE Found(note, "", <<>>)
        ELSE Found(note, "", <<>>)

\* the branch for a bare token
find_bare(ntbl, cur, note_id) ==
    LET note == get_note(ntbl, note_id)
        Pre(n) == StartsWith(n.id, note_id)
        matching == Ids(SelectSeq(get_notes_in_folder(ntbl, cur), Pre))
    IN  IF note = None /\ cur # None
        THEN IF Len(matching) = 1 THEN Found(matching[1], "", <<>>)
             ELSE IF Len(matching) > 1
             THEN Found(None, "Ambiguous ID - multiple notes match:", matching)
             ELSE Found(note, "", <<>>)
        ELSE Found(note, "", <<>>)

find_note_in_context(ftbl, ntbl, cur, arg) ==
    IF HasSlash(arg) THEN find_qualified(ftbl, ntbl, arg)
    ELSE find_bare(ntbl, cur, arg)

(***************************************************************************)
(* Input backends.  The user does one of three things at a read: types a   *)
(* line and presses Enter, presses Ctrl-C, or standard input is at         *)
(* end-of-file (a closed pipe or file, a hung-up terminal: a condition     *)
(* that lasts).  A line is modelled after `.strip()` and                   *)
(* `.split(maxsplit=1)`: its action word and its argument.                 *)
(***************************************************************************)
Line(a, arg) == [action |-> a, arg |-> arg]
EmptyLine == Line("", <<>>)

Ret(l) == [exc |-> "none", line |-> l]
Raise(e) == [exc |-> e, line |-> EmptyLine]

\* the builtin input(prompt), with or without the readline library
py_input(ev, typed) ==
    CASE ev = "line" -> Ret(typed)
      [] ev = "ctrl_c" -> Raise("KeyboardInterrupt")
      [] ev = "eof" -> Raise("EOFError")

\* setup_terminal()
setup_terminal == ~READLINE_AVAILABLE /\ HAVE_TERMIOS

\* enhanced_input's last resort: sys.stdin.readline() inside
\* try/except (EOFError, KeyboardInterrupt); at end-of-file readline gives ''
plain_readline(ev, typed) ==
    CASE ev = "line" -> Ret(typed)
      [] ev = "ctrl_c" -> Ret(EmptyLine)
      [] ev = "eof" -> Ret(EmptyLine)

\* get_terminal_raw_input as one call.  Not a terminal: tcgetattr raises and the
\* call falls back to input(prompt).  A terminal in raw mode: Enter returns the
\* buffer, byte 0x03 returns "", and at end-of-file read(1) gives '' whose ord()
\* raises, which ends in input(prompt) too.
raw_input_call(ev, typed) ==
    IF ~stdin_tty THEN py_input(ev, typed)
    ELSE CASE ev = "line" -> Ret(typed)
           [] ev = "ctrl_c" -> Ret(EmptyLine)
           [] ev = "eof" -> py_input(ev, typed)

\* what follows the readline attempt in enhanced_input
input_fallback(ev, typed) ==
    IF setup_terminal THEN raw_input_call(ev, typed) ELSE plain_readline(ev, typed)

\* enhanced_input: `except Exception: pass` around the readline attempt lets
\* EOFError fall through to the fallbacks; KeyboardInterrupt is no Exception
enhanced_input(ev, typed) ==
    IF READLINE_AVAILABLE
    THEN LET r == py_input(ev, typed)
         IN  IF r.exc = "EOFError" THEN input_fallback(ev, typed) ELSE r
    ELSE input_fallback(ev, typed)

\* safe_input: except EOFError: return ""
safe_input(ev, typed) ==
    LET r == enhanced_input(ev, typed)
    IN  IF r.exc = "EOFError" THEN Ret(EmptyLine) ELSE r

(***************************************************************************)
(* Inputs of the session.                                                  *)
(***************************************************************************)
CdArgs == { <<>>, <<".", ".">>, <<"/">>, <<"a">>, FA, FB, <<"b">>, <<"z">> }
NoteArgs == { <<>>, <<"c">>, NA, <<"d">>,
              <<"a", "/", "c">>, <<"b", "/", "d">>, <<"a", "a", "/", "c">>,
              <<"z", "/", "c">> }
EditArgs == { <<>>, NA, <<"z", "/", "c">> }
SearchArgs == { <<>>, <<"T">>, <<"W">>, <<"\"">> }
ExportArgs == { <<>>, NA, <<"z">> }

Lines ==
    {EmptyLine}
    \cup {Line("cd", a) : a \in CdArgs}
    \cup {Line("n", a) : a \in NoteArgs}
    \cup {Line(w, a) : w \in {"cat", "vim"}, a \in EditArgs}
    \cup {Line("s", a) : a \in SearchArgs}
    \cup {Line("e", a) : a \in ExportArgs}
    \cup {Line(w, <<>>) : w \in {"l", "h", "q", "x"}}

Events == {"line", "ctrl_c", "eof"}

Environments ==
    { [readline |-> TRUE,  termios |-> TRUE,  tty |-> TRUE],
      [readline |-> FALSE, termios |-> TRUE,  tty |-> TRUE],
      [readline |-> FALSE, termios |-> TRUE,  tty |-> FALSE],
      [readline |-> FALSE, termios |-> FALSE, tty |-> TRUE] }

(***************************************************************************)
(* The session: main() and the loop of interactive_browser.  One action    *)
(* builds the prompt; every other action is one read at the prompt         *)
(* together with the whole branch of the loop that handles what was read.  *)
(***************************************************************************)
ReadIdle ==
    /\ term_mode = "cooked"
    /\ old_settings = "unset"
    /\ rd_pc = "idle"
    /\ current_input = <<>>
    /\ cursor_position = 0
    /\ command_history = <<>>
    /\ rd_ret = <<>>
    /\ rd_via = "none"
    /\ rd_ch = "none"
    /\ rd_next1 = "none"
    /\ screen = <<>>
    /\ column = 0

WalkIdle ==
    /\ walk_pc = "idle"
    /\ walk_fid = None
    /\ walk_parts = <<>>

\* no export has run: the export directory does not exist yet
ExportIdle ==
    /\ disk = {}
    /\ ex_pc = "idle"
    /\ ex_stack = <<>>
    /\ ex_log = <<>>
    /\ ex_format = "md"
    /\ ex_meta = FALSE
    /\ ex_runs = 0
    /\ disk_first = {}

Init ==
    /\ \E st \in Storages : folders = st.folders /\ notes = st.notes
    /\ \E env \in Environments :
          /\ READLINE_AVAILABLE = env.readline
          /\ HAVE_TERMIOS = env.termios
          /\ stdin_tty = env.tty
    /\ WRITE_MODE \in BOOLEAN
    /\ current_folder_id = None
    /\ history = <<>>
    /\ prompt = <<>>
    /\ pc = "prompt"
    /\ cmd = EmptyLine
    /\ event = "none"
    /\ out = Msg("", <<>>)
    /\ before = None
    /\ before_history = <<>>
    /\ stdin_eof = FALSE
    /\ db_open = TRUE
    /\ exit_cause = "none"
    /\ ReadIdle
    /\ WalkIdle
    /\ ExportIdle

\* lines 497-506: the prompt is built from the current folder
BuildPrompt ==
    /\ pc = "prompt"
    /\ prompt' = path_parts(folders, current_folder_id)
    /\ pc' = "input"
    /\ UNCHANGED <<folders, notes, envVars, navVars, readVars, walkVars, exportVars>>
    /\ UNCHANGED <<cmd, event, out, before, before_history, stdin_eof, db_open, exit_cause>>

\* the user does ev at the prompt (typing `typed` when ev is a line)
Reads(ev, typed) ==
    /\ pc = "input"
    /\ stdin_eof => ev = "eof"
    /\ ev # "line" => typed = EmptyLine
    /\ event' = ev
    /\ stdin_eof' = (ev = "eof")
    /\ UNCHANGED <<envVars, readVars, walkVars, exportVars, prompt>>

\* the branch ends in `continue` (or falls off the loop body) after printing m
Continue(l, m) ==
    /\ cmd' = l
    /\ out' = m
    /\ before' = current_folder_id
    /\ before_history' = history
    /\ pc' = "prompt"
    /\ UNCHANGED <<db_open, exit_cause>>

\* the loop is left: by `break`, or by an exception nothing catches; either
\* way main's `finally` closes the connection
Leave(l, m, cause) ==
    /\ cmd' = l
    /\ out' = m
    /\ before' = current_folder_id
    /\ before_history' = history
    /\ pc' = "done"
    /\ exit_cause' = cause
    /\ db_open' = FALSE

\* safe_input raises: the exception leaves interactive_browser before any
\* command is looked at, and main's `finally` closes the connection
Interrupted ==
    \E ev \in Events, typed \in Lines :
        LET r == safe_input(ev, typed)
        IN  /\ Reads(ev, typed)
            /\ r.exc # "none"
            /\ pc' = "done"
            /\ exit_cause' = r.exc
            /\ db_open' = FALSE
            /\ UNCHANGED <<cmd, out, before, before_history>>
            /\ UNCHANGED <<folders, notes, navVars>>

\* a branch that leaves the session at the root level
nav_reset(cur, hist) == Nav(None, hist, "", <<>>)

\* the branches other than `cd` (lines 509-557, 645-884) assign neither
\* current_folder_id nor history
nav_kept(cur, hist) == Nav(cur, hist, "", <<>>)

NavKept ==
    LET r == nav_kept(current_folder_id, history)
    IN  current_folder_id' = r.current /\ history' = r.history

\* `if not cmd: continue`
Blank ==
    \E ev \in Events, typed \in Lines :
        LET r == safe_input(ev, typed)
        IN  /\ Reads(ev, typed)
            /\ r.exc = "none"
            /\ r.line.action = ""
            /\ Continue(r.line, Msg("", <<>>))
            /\ UNCHANGED <<folders, notes>> /\ NavKept

\* safe_input returned a line whose first word is in `words`
Command(l, words) ==
    \E ev \in Events :
        /\ Reads(ev, l)
        /\ safe_input(ev, l) = Ret(l)
        /\ l.action \in words

Quit ==
    \E l \in Lines :
        /\ Command(l, {"q", "quit", "exit"})
        /\ Leave(l, Msg("Bye!", <<>>), "quit")
        /\ UNCHANGED <<folders, notes>> /\ NavKept

List ==
    \E l \in Lines :
        /\ Command(l, {"l", "list"})
        /\ Continue(l, Msg("list",
               Ids(get_folders(folders, current_folder_id))
               \o (IF current_folder_id # None
                   THEN Ids(get_notes_in_folder(notes, current_folder_id))
                   ELSE <<>>)))
        /\ UNCHANGED <<folders, notes>> /\ NavKept

Cd ==
    \E l \in Lines :
        LET r == cd(folders, current_folder_id, history, l.arg)
        IN  /\ Command(l, {"cd", "go", "enter"})
            /\ Len(r.history) <= MaxHistory
            /\ current_folder_id' = r.current
            /\ history' = r.history
            /\ Continue(l, Msg(r.msg, r.ids))
            /\ UNCHANGED <<folders, notes>>

\* what `n` and `cat` print for an argument
show(arg) ==
    LET f == find_note_in_context(folders, notes, current_folder_id, arg)
    IN  IF arg = <<>> THEN Msg("Usage", <<>>)
        ELSE IF f.note = None THEN Msg(f.msg, f.ids)
        ELSE Msg("note", <<f.note>>)

ShowNote ==
    \E l \in Lines :
        /\ Command(l, {"n", "note", "view", "read", "show"})
        /\ Continue(l, show(l.arg))
        /\ UNCHANGED <<folders, notes>> /\ NavKept

Cat ==
    \E l \in Lines :
        /\ Command(l, {"cat", "content", "body"})
        /\ Continue(l, show(l.arg))
        /\ UNCHANGED <<folders, notes>> /\ NavKept

BodyOf(tbl, id) == (CHOOSE n \in Range(tbl) : n.id = id).body

\* UPDATE notes SET body = ? ... WHERE id = ?
update_body(tbl, id, body) ==
    [i \in 1..Len(tbl) |-> IF tbl[i].id = id THEN [tbl[i] EXCEPT !.body = body] ELSE tbl[i]]

TitleOf(tbl, id) == (CHOOSE n \in Range(tbl) : n.id = id).title

\* f"# {note['title']}\n\n"
title_header(title) == <<"#", " ">> \o title \o <<"\n", "\n">>

\* lines 724-727: the temporary file the editor is started on
temp_file(title, body) == title_header(title) \o body

\* what the editor leaves in the file: a body below the title header, or
\* the body alone when the user has deleted the header
editor_text(title, body, with_header) ==
    IF with_header THEN temp_file(title, body) ELSE body

\* lines 746-749: the title line is removed
strip_header(title, text) ==
    IF StartsWith(text, title_header(title))
    THEN SubSeq(text, Len(title_header(title)) + 1, Len(text))
    ELSE IF StartsWith(text, <<"#", " ">> \o title \o <<"\n">>)
    THEN SubSeq(text, Len(title) + 4, Len(text))
    ELSE text

\* a save that does not ask for write mode
vim_saves_always(write_mode, new_content, body) == new_content # body

\* lines 752-753: `if new_content != note["body"]: if WRITE_MODE:`
vim_saves(write_mode, new_content, body) == new_content # body /\ write_mode

\* the editor is missing, or it exits and leaves a text in the file; the
\* UPDATE succeeds or raises (the database is locked by the application)
Vim ==
    \E l \in Lines :
        LET f == find_note_in_context(folders, notes, current_folder_id, l.arg)
        IN  /\ Command(l, {"vim", "edit", "vi"})
            /\ UNCHANGED folders /\ NavKept
            /\ IF l.arg = <<>>
               THEN Continue(l, Msg("Usage", <<>>)) /\ UNCHANGED notes
               ELSE IF f.note = None
               THEN Continue(l, Msg(f.msg, f.ids)) /\ UNCHANGED notes
               ELSE \E vim_found \in BOOLEAN, typed \in {OrigBody, EditedBody},
                       with_header \in BOOLEAN, committed \in BOOLEAN :
                    LET text == editor_text(TitleOf(notes, f.note), typed, with_header)
                        new_content == strip_header(TitleOf(notes, f.note), text)
                    IN  IF ~vim_found
                        THEN /\ Continue(l, Msg("Vim not found.", <<f.note>>))
                             /\ UNCHANGED notes
                        ELSE IF new_content = BodyOf(notes, f.note)
                        THEN /\ Continue(l, Msg("No changes made to the note.", <<f.note>>))
                             /\ UNCHANGED notes
                        ELSE IF ~vim_saves(WRITE_MODE, new_content, BodyOf(notes, f.note))
                        THEN /\ Continue(l, Msg("READ-ONLY", <<f.note>>))
                             /\ UNCHANGED notes
                        ELSE IF committed
                        THEN /\ notes' = update_body(notes, f.note, new_content)
                             /\ Continue(l, Msg("updated in database", <<f.note>>))
                        ELSE /\ Continue(l, Msg("Failed to save changes to database",
                                                <<f.note>>))
                             /\ UNCHANGED notes

\* `s <term>`: the loop over the hits calls result.get(...), which a
\* sqlite3.Row does not have
Search ==
    \E l \in Lines :
        LET r == search_notes(notes, l.arg)
        IN  /\ Command(l, {"s", "search", "find"})
            /\ UNCHANGED <<folders, notes>> /\ NavKept
            /\ IF l.arg = <<>> THEN Continue(l, Msg("Usage", <<>>))
               ELSE IF r.exc # "none" THEN Leave(l, Msg("Traceback", <<>>), r.exc)
               ELSE IF r.rows = <<>> THEN Continue(l, Msg("No matches found.", <<>>))
               ELSE Leave(l, Msg("Traceback", r.rows), "AttributeError")

\* `e [note-id]`: what is exported
Export ==
    \E l \in Lines :
        LET Same(f) == f.id = current_folder_id
            folder == SelectSeq(get_folders(folders, None), Same)
        IN  /\ Command(l, {"e"})
            /\ UNCHANGED <<folders, notes>> /\ NavKept
            /\ IF l.arg = <<>>
               THEN IF current_folder_id = None
                    THEN Continue(l, Msg("Exporting all", Ids(get_folders(folders, None))))
                    ELSE IF folder # <<>>
                    THEN Continue(l, Msg("Exporting notebook", Ids(folder)))
                    ELSE Continue(l, Msg("Current folder not found.", <<>>))
               ELSE IF get_note(notes, l.arg) = None
                    THEN Continue(l, Msg("Note not found.", <<>>))
                    ELSE Continue(l, Msg("Exported", <<get_note(notes, l.arg)>>))

Help ==
    \E l \in Lines :
        /\ Command(l, {"h", "help", "?"})
        /\ Continue(l, Msg("help", <<>>))
        /\ UNCHANGED <<folders, notes>> /\ NavKept

KnownWords ==
    {"q", "quit", "exit", "l", "list", "cd", "go", "enter", "n", "note", "view",
     "read", "show", "cat", "content", "body", "vim", "edit", "vi", "s", "search",
     "find", "e", "h", "help", "?"}

Unknown ==
    \E l \in Lines :
        /\ Command(l, {l.action} \ (KnownWords \cup {""}))
        /\ Continue(l, Msg("Unknown command.", <<>>))
        /\ UNCHANGED <<folders, notes>> /\ NavKept

Next ==
    \/ BuildPrompt
    \/ Interrupted
    \/ Blank
    \/ Quit
    \/ List
    \/ Cd
    \/ ShowNote
    \/ Cat
    \/ Vim
    \/ Search
    \/ Export
    \/ Help
    \/ Unknown

Spec == Init /\ [][Next]_vars

(***************************************************************************)
(* The raw-mode line reader, get_terminal_raw_input, byte by byte.         *)
(* Bytes are named: CR (Enter; the code treats LF alike), ETX (Ctrl-C,      *)
(* 0x03), ESC (0x1b), DEL (0x7f; the code treats BS alike), HT (a control  *)
(* byte no branch handles); the other bytes are printable characters.      *)
(* EOF is read(1) returning ''.                                            *)
(***************************************************************************)
Printable == {"x", " ", "[", "A", "B", "C", "D"}
Bytes == Printable \cup {"CR", "ETX", "ESC", "DEL", "HT"}
\* the printable bytes typed into the buffer
Typed == {"x", " "}
\* the bytes sent after ESC: an arrow key sends `[` and a letter; anything
\* else is a malformed sequence
AfterEsc1 == {"[", "x"}
AfterEsc2 == {"A", "B", "C", "D", "x", "CR", "ETX"}
\* the non-blank lines the user accepts with Enter
Accepted == { <<"x">>, <<" ", "x">> }

\* current_input.strip() is non-empty
NonBlank(s) == \E i \in 1..Len(s) : s[i] # " "

Max(a, b) == IF a >= b THEN a ELSE b

(***************************************************************************)
(* The terminal, as far as the reader writes to it: the cells of the row   *)
(* the cursor is in, and the cursor column.  The row is wide enough for    *)
(* what is printed; a cell nothing was written to is blank.                *)
(***************************************************************************)
Term(row, col) == [row |-> row, col |-> col]

\* ' ' * n
spaces(n) == [i \in 1..n |-> " "]

\* one printable character: it replaces the cell at the cursor, which moves on
put(t, c) ==
    Term(IF t.col < Len(t.row)
         THEN SubSeq(t.row, 1, t.col) \o <<c>> \o SubSeq(t.row, t.col + 2, Len(t.row))
         ELSE t.row \o spaces(t.col - Len(t.row)) \o <<c>>,
         t.col + 1)

RECURSIVE puts(_, _)
\* print(s, end=""): the characters of s, one after the other
puts(t, s) == IF s = <<>> THEN t ELSE puts(put(t, Head(s)), Tail(s))

\* '\r'
cr(t) == Term(t.row, 0)

\* '\n': tty.setraw switches output post-processing off, so in raw mode the
\* cursor goes one row down and keeps its column; in cooked mode the line
\* discipline sends CR LF
lf(t, mode) == Term(<<>>, IF mode = "raw" THEN t.col ELSE 0)

\* '\x1b[D', n times, and '\x1b[C'
left(t, n) == Term(t.row, Max(t.col - n, 0))
right(t) == Term(t.row, t.col + 1)

\* print('\r' + ' ' * n + '\r', end="")
wipe(t, n) == cr(puts(cr(t), spaces(n)))

RECURSIVE join(_)
\* "/".join(path_parts)
join(parts) ==
    IF parts = <<>> THEN <<>>
    ELSE IF Len(parts) = 1 THEN parts[1]
    ELSE parts[1] \o <<"/">> \o join(Tail(parts))

\* lines 505-506: f"{prompt} > ", the text safe_input is called with
prompt_text(parts) ==
    (IF parts # <<>> THEN join(parts) ELSE <<"(", "r", "o", "o", "t", ")">>)
    \o <<" ", ">", " ">>

\* a `finally` that leaves the terminal as it is
restore_nothing(mode, saved) == mode

\* the `finally` of get_terminal_raw_input: termios.tcsetattr(fd, ..., old_settings)
restore(mode, saved) == saved

\* an Up arrow that recalls the oldest line of the history
arrow_oldest(buf, cur, hist, next1, next2) ==
    IF next1 = "[" /\ next2 = "A" /\ hist # <<>> /\ buf # hist[1]
    THEN [buf |-> hist[1], cur |-> Len(hist[1])]
    ELSE IF next1 = "[" /\ next2 = "B" /\ buf # <<>> THEN [buf |-> <<>>, cur |-> 0]
    ELSE [buf |-> buf, cur |-> cur]

\* after ESC and two more bytes: the arrow keys
arrow(buf, cur, hist, next1, next2) ==
    IF next1 # "[" THEN [buf |-> buf, cur |-> cur]
    ELSE CASE next2 = "A" ->
                IF hist # <<>> /\ buf # hist[Len(hist)]
                THEN [buf |-> hist[Len(hist)], cur |-> Len(hist[Len(hist)])]
                ELSE [buf |-> buf, cur |-> cur]
           [] next2 = "B" ->
                IF buf # <<>> THEN [buf |-> <<>>, cur |-> 0]
                ELSE [buf |-> buf, cur |-> cur]
           [] next2 = "C" ->
                [buf |-> buf, cur |-> IF cur < Len(buf) THEN cur + 1 ELSE cur]
           [] next2 = "D" ->
                [buf |-> buf, cur |-> IF cur > 0 THEN cur - 1 ELSE cur]
           [] OTHER -> [buf |-> buf, cur |-> cur]

\* a backspace that does not look at the cursor
erase_unguarded(buf, cur) ==
    [buf |-> SubSeq(buf, 1, cur - 1) \o SubSeq(buf, cur + 1, Len(buf)), cur |-> cur - 1]

\* backspace
erase(buf, cur) ==
    IF cur > 0
    THEN [buf |-> SubSeq(buf, 1, cur - 1) \o SubSeq(buf, cur + 1, Len(buf)), cur |-> cur - 1]
    ELSE [buf |-> buf, cur |-> cur]

\* a printable character
insert(buf, cur, ch) ==
    [buf |-> SubSeq(buf, 1, cur) \o <<ch>> \o SubSeq(buf, cur + 1, Len(buf)),
     cur |-> cur + 1]

\* an Enter that records every line
accept_always(hist, buf) == Append(hist, buf)

\* lines 86-87: if current_input.strip(): command_history.append(current_input)
accept(hist, buf) == IF NonBlank(buf) THEN Append(hist, buf) ELSE hist

\* lines 106-107, 131-132, 140-141: the row is wiped over the length of
\* prompt + current_input, and both are printed again
reprint(t, p, buf) == puts(wipe(t, Len(p) + Len(buf)), p \o buf)

\* a redraw that leaves the cursor at the end of the line
reposition_none(t, buf, cur) == t

\* lines 133-134, 142-143: one '\x1b[D' for each of range(cursor_position, len(current_input))
reposition(t, buf, cur) == left(t, Len(buf) - cur)

\* what the arrow branches print
arrow_print(t, p, buf, cur, hist, next1, next2) ==
    IF next1 # "[" THEN t
    ELSE CASE next2 = "A" ->
                IF hist # <<>> /\ buf # hist[Len(hist)]
                THEN reprint(t, p, hist[Len(hist)])
                ELSE t
           [] next2 = "B" ->
                IF buf # <<>> THEN puts(wipe(t, Len(p) + Len(buf)), p) ELSE t
           [] next2 = "C" -> IF cur < Len(buf) THEN right(t) ELSE t
           [] next2 = "D" -> IF cur > 0 THEN left(t, 1) ELSE t
           [] OTHER -> t

\* what the backspace branch prints
erase_print(t, p, buf, cur) ==
    IF cur > 0
    THEN LET r == erase(buf, cur)
         IN  reposition(reprint(t, p, r.buf), r.buf, r.cur)
    ELSE t

\* what the branch of a printable character prints
insert_print(t, p, buf, cur, ch) ==
    LET r == insert(buf, cur, ch)
    IN  reposition(reprint(t, p, r.buf), r.buf, r.cur)

sessIdle ==
    /\ current_folder_id = None
    /\ history = <<>>
    /\ prompt = <<>>
    /\ pc = "prompt"
    /\ cmd = EmptyLine
    /\ event = "none"
    /\ out = Msg("", <<>>)
    /\ before = None
    /\ before_history = <<>>
    /\ stdin_eof = FALSE
    /\ db_open = TRUE
    /\ exit_cause = "none"

\* the reader runs when readline is missing and termios is there
ReaderInit ==
    /\ folders = Layout(FA, FA).folders
    /\ notes = Layout(FA, FA).notes
    /\ READLINE_AVAILABLE = FALSE
    /\ HAVE_TERMIOS = TRUE
    /\ stdin_tty \in BOOLEAN
    /\ WRITE_MODE = FALSE
    /\ sessIdle
    /\ ReadIdle
    /\ WalkIdle
    /\ ExportIdle

readerFrame == UNCHANGED <<folders, notes, envVars, navVars, sessVars, walkVars, exportVars>>

\* the terminal as the reader finds it
term == Term(screen, column)

\* the text the loop passes to safe_input
p_text == prompt_text(prompt)

\* the states in which the reader waits for a byte
Reading == rd_pc \in {"loop", "esc", "esc2"}

\* where the cursor is when the next read starts: a line that is blank after
\* .strip() makes the loop `continue` without printing, so the cursor is where
\* the reader left it; every command prints lines in cooked mode, and so does
\* the echo of a line read by input()
start_column ==
    IF rd_via \in {"enter", "ctrl_c"} /\ ~NonBlank(rd_ret) THEN column ELSE 0

\* lines 66-78: the call starts and prints the prompt; tcgetattr raises when
\* stdin is no terminal, else the settings are saved and the terminal is set raw
RawStart ==
    /\ rd_pc \in {"idle", "returned", "raised"}
    /\ setup_terminal
    /\ start_column + Len(p_text) <= Width
    /\ current_input' = <<>>
    /\ cursor_position' = 0
    /\ rd_ret' = <<>>
    /\ rd_ch' = "none"
    /\ rd_next1' = "none"
    /\ LET t == puts(Term(<<>>, start_column), p_text)
       IN  screen' = t.row /\ column' = t.col
    /\ IF stdin_tty
       THEN /\ old_settings' = term_mode
            /\ term_mode' = "raw"
            /\ rd_pc' = "loop"
            /\ rd_via' = "none"
       ELSE /\ rd_pc' = "plain"
            /\ rd_via' = "no_terminal"
            /\ UNCHANGED <<term_mode, old_settings>>
    /\ UNCHANGED command_history
    /\ readerFrame

\* Enter: print() still in raw mode, the line is recorded and returned
RawEnter ==
    /\ rd_pc = "loop"
    /\ NonBlank(current_input) =>
          ( Len(command_history) < MaxLines /\ current_input \in Accepted )
    /\ rd_ch' = "CR"
    /\ command_history' = accept(command_history, current_input)
    /\ rd_ret' = current_input
    /\ rd_via' = "enter"
    /\ rd_pc' = "returned"
    /\ LET t == lf(term, term_mode)
       IN  screen' = t.row /\ column' = t.col
    /\ term_mode' = restore(term_mode, old_settings)
    /\ UNCHANGED <<old_settings, current_input, cursor_position, rd_next1>>
    /\ readerFrame

\* Ctrl-C: print("^C") still in raw mode, the line is abandoned
RawCtrlC ==
    /\ rd_pc = "loop"
    /\ rd_ch' = "ETX"
    /\ rd_ret' = <<>>
    /\ rd_via' = "ctrl_c"
    /\ rd_pc' = "returned"
    /\ LET t == lf(puts(term, <<"^", "C">>), term_mode)
       IN  screen' = t.row /\ column' = t.col
    /\ term_mode' = restore(term_mode, old_settings)
    /\ UNCHANGED <<old_settings, current_input, cursor_position, command_history, rd_next1>>
    /\ readerFrame

\* ESC: line 97 reads the next byte
RawEsc ==
    /\ rd_pc = "loop"
    /\ rd_ch' = "ESC"
    /\ rd_pc' = "esc"
    /\ UNCHANGED <<term_mode, old_settings, current_input, cursor_position,
                   command_history, rd_ret, rd_via, rd_next1, screen, column>>
    /\ readerFrame

\* next1 arrives: line 98 reads one more byte before the code looks at next1
RawNext1 ==
    /\ rd_pc = "esc"
    /\ \E next1 \in AfterEsc1 : rd_ch' = next1 /\ rd_next1' = next1
    /\ rd_pc' = "esc2"
    /\ UNCHANGED <<term_mode, old_settings, current_input, cursor_position,
                   command_history, rd_ret, rd_via, screen, column>>
    /\ readerFrame

\* next2 arrives: lines 100-124
RawArrow ==
    /\ rd_pc = "esc2"
    /\ \E next2 \in AfterEsc2 :
          LET r == arrow(current_input, cursor_position, command_history, rd_next1, next2)
              t == arrow_print(term, p_text, current_input, cursor_position,
                               command_history, rd_next1, next2)
          IN  /\ rd_ch' = next2
              /\ current_input' = r.buf
              /\ cursor_position' = r.cur
              /\ screen' = t.row
              /\ column' = t.col
    /\ rd_pc' = "loop"
    /\ UNCHANGED <<term_mode, old_settings, command_history, rd_ret, rd_via, rd_next1>>
    /\ readerFrame

RawBackspace ==
    /\ rd_pc = "loop"
    /\ rd_ch' = "DEL"
    /\ LET r == erase(current_input, cursor_position)
           t == erase_print(term, p_text, current_input, cursor_position)
       IN  /\ current_input' = r.buf
           /\ cursor_position' = r.cur
           /\ screen' = t.row
           /\ column' = t.col
    /\ UNCHANGED <<term_mode, old_settings, rd_pc, command_history, rd_ret, rd_via, rd_next1>>
    /\ readerFrame

RawInsert ==
    /\ rd_pc = "loop"
    /\ Len(current_input) < MaxBuffer
    /\ \E ch \in Typed :
          LET r == insert(current_input, cursor_position, ch)
              t == insert_print(term, p_text, current_input, cursor_position, ch)
          IN  /\ rd_ch' = ch
              /\ current_input' = r.buf
              /\ cursor_position' = r.cur
              /\ screen' = t.row
              /\ column' = t.col
    /\ UNCHANGED <<term_mode, old_settings, rd_pc, command_history, rd_ret, rd_via, rd_next1>>
    /\ readerFrame

\* a control byte no branch tests for: the loop reads on
RawIgnored ==
    /\ rd_pc = "loop"
    /\ rd_ch' = "HT"
    /\ UNCHANGED <<term_mode, old_settings, rd_pc, current_input, cursor_position,
                   command_history, rd_ret, rd_via, rd_next1, screen, column>>
    /\ readerFrame

\* read(1) raises, or gives '' at end-of-file and ord('') raises: the `finally`
\* restores the terminal, then `except Exception` falls back to input(prompt)
RawException ==
    /\ Reading
    /\ rd_pc' = "plain"
    /\ rd_via' = "exception"
    /\ term_mode' = restore(term_mode, old_settings)
    /\ UNCHANGED <<old_settings, current_input, cursor_position, command_history, rd_ret,
                   rd_ch, rd_next1, screen, column>>
    /\ readerFrame

\* the fallback input(prompt): a line, whose Enter the terminal echoes in cooked
\* mode, or EOFError / KeyboardInterrupt, which leave get_terminal_raw_input
PlainInput ==
    /\ rd_pc = "plain"
    /\ \E ev \in Events, typed \in {<<>>, <<"x">>} :
          LET r == py_input(ev, Line("", typed))
          IN  /\ ev # "line" => typed = <<>>
              /\ rd_ret' = r.line.arg
              /\ rd_pc' = IF r.exc = "none" THEN "returned" ELSE "raised"
    /\ LET t == lf(puts(term, p_text), term_mode)
       IN  screen' = t.row /\ column' = t.col
    /\ UNCHANGED <<term_mode, old_settings, current_input, cursor_position,
                   command_history, rd_via, rd_ch, rd_next1>>
    /\ readerFrame

ReaderNext ==
    \/ RawStart
    \/ RawEnter
    \/ RawCtrlC
    \/ RawEsc
    \/ RawNext1
    \/ RawArrow
    \/ RawBackspace
    \/ RawInsert
    \/ RawIgnored
    \/ RawException
    \/ PlainInput

ReaderSpec == ReaderInit /\ [][ReaderNext]_vars

(***************************************************************************)
(* The history of accepted lines, under each input backend.  One action is *)
(* one call of enhanced_input in which the user types a line and Enter.    *)
(* The only limit the program sets is readline.set_history_length, which   *)
(* applies to the history file that the readline library writes.           *)
(***************************************************************************)
HISTORY_LENGTH == 100

\* the lines typed
HistoryLines == { <<>>, <<" ">>, <<"x">> }

HistoryInit ==
    /\ folders = Layout(FA, FA).folders
    /\ notes = Layout(FA, FA).notes
    /\ \E env \in Environments :
          /\ READLINE_AVAILABLE = env.readline
          /\ HAVE_TERMIOS = env.termios
          /\ stdin_tty = env.tty
    /\ WRITE_MODE = FALSE
    /\ sessIdle
    /\ ReadIdle
    /\ WalkIdle
    /\ ExportIdle

\* the call returns line, with the history as the backend leaves it
Returns(line, via, hist) ==
    /\ NonBlank(line) => Len(command_history) < MaxAccepted
    /\ command_history' = hist
    /\ rd_ret' = line
    /\ rd_via' = via
    /\ rd_pc' = "returned"
    /\ UNCHANGED <<term_mode, old_settings, current_input, cursor_position, rd_ch, rd_next1,
                   screen, column>>
    /\ readerFrame

\* lines 177-189: input() with readline; `if line.strip(): command_history.append(line)`
ReadlineLine ==
    /\ READLINE_AVAILABLE
    /\ \E line \in HistoryLines : Returns(line, "readline", accept(command_history, line))

\* lines 195-196 and 83-88: the raw-mode reader on a terminal
RawLine ==
    /\ setup_terminal /\ stdin_tty
    /\ \E line \in HistoryLines : Returns(line, "enter", accept(command_history, line))

\* lines 149-151: the raw-mode reader without a terminal returns input(prompt)
\* and records nothing
RawFallbackLine ==
    /\ setup_terminal /\ ~stdin_tty
    /\ \E line \in HistoryLines : Returns(line, "no_terminal", command_history)

\* lines 199-204: sys.stdin.readline(); `if line.strip(): command_history.append(line)`
PlainLine ==
    /\ ~READLINE_AVAILABLE /\ ~setup_terminal
    /\ \E line \in HistoryLines : Returns(line, "readline()", accept(command_history, line))

HistoryNext ==
    \/ ReadlineLine
    \/ RawLine
    \/ RawFallbackLine
    \/ PlainLine

HistorySpec == HistoryInit /\ [][HistoryNext]_vars

(***************************************************************************)
(* The walk that builds the prompt path (lines 497-506), one iteration of  *)
(* its `while fid:` per step, over storages of any content: the parent_id  *)
(* of a folder is '', the id of a folder (its own included), or an id that *)
(* names no folder.  The storage is the database of another application,   *)
(* so the walk can start at any folder id.                                 *)
(***************************************************************************)
Dangling == <<"z", "z">>
ParentIds == { <<>>, FA, FB, FC, Dangling }

AnyFolders ==
    { << FolderRow(FA, <<"W">>, p1), FolderRow(FB, <<"H">>, p2), FolderRow(FC, <<"D">>, p3) >> :
        p1 \in ParentIds, p2 \in ParentIds, p3 \in ParentIds }

WalkInit ==
    /\ folders \in AnyFolders
    /\ notes = Layout(FA, FA).notes
    /\ READLINE_AVAILABLE = TRUE
    /\ HAVE_TERMIOS = TRUE
    /\ stdin_tty = TRUE
    /\ WRITE_MODE = FALSE
    /\ current_folder_id \in { None, FA, FB, FC }
    /\ history = <<>>
    /\ prompt = <<>>
    /\ pc = "prompt"
    /\ cmd = EmptyLine
    /\ event = "none"
    /\ out = Msg("", <<>>)
    /\ before = None
    /\ before_history = <<>>
    /\ stdin_eof = FALSE
    /\ db_open = TRUE
    /\ exit_cause = "none"
    /\ ReadIdle
    /\ WalkIdle
    /\ ExportIdle

walkFrame ==
    UNCHANGED <<folders, notes, envVars, navVars, readVars, exportVars, cmd, event, out,
                before, before_history, stdin_eof, db_open, exit_cause>>

\* lines 497-498: path_parts = []; fid = current_folder_id
WalkStart ==
    /\ pc = "prompt"
    /\ walk_pc = "idle"
    /\ walk_pc' = "while"
    /\ walk_fid' = current_folder_id
    /\ walk_parts' = <<>>
    /\ UNCHANGED <<pc, prompt>>
    /\ walkFrame

\* lines 499-504: one iteration that finds the folder
WalkStep ==
    /\ walk_pc = "while"
    /\ walk_fid # None
    /\ walk_find(folders, walk_fid) # <<>>
    /\ Len(walk_parts) < MaxWalk
    /\ walk_parts' = Append(walk_parts, walk_find(folders, walk_fid)[1].title)
    /\ walk_fid' = walk_find(folders, walk_fid)[1].parent_id
    /\ UNCHANGED <<walk_pc, pc, prompt>>
    /\ walkFrame

\* the loop ends, by its condition or by `break`; line 504: path_parts.reverse()
WalkEnd ==
    /\ walk_pc = "while"
    /\ walk_fid = None \/ walk_find(folders, walk_fid) = <<>>
    /\ walk_pc' = "done"
    /\ prompt' = Reverse(walk_parts)
    /\ pc' = "input"
    /\ UNCHANGED <<walk_fid, walk_parts>>
    /\ walkFrame

WalkNext ==
    \/ WalkStart
    \/ WalkStep
    \/ WalkEnd

WalkSpec == WalkInit /\ [][WalkNext]_vars

\* the loop is one thread that goes on by itself
FairWalkSpec == WalkSpec /\ WF_vars(WalkNext)

(***************************************************************************)
(* The session under the scheduling the code guarantees: the loop is one   *)
(* thread that never pauses by itself.  Building the prompt always goes    *)
(* on; a read returns at once when standard input is at end-of-file.       *)
(* Nothing makes the user type, so there is no fairness on a read that     *)
(* waits for input.                                                        *)
(***************************************************************************)
EofStep == stdin_eof /\ Next

FairSpec == Spec /\ WF_vars(BuildPrompt) /\ WF_vars(EofStep)

(***************************************************************************)
(* The export: export_notebook_recursive, export_note_to_format and        *)
(* extract_attachments, with the filesystem below the export directory.    *)
(* A path is the sequence of its segments, counted from the export         *)
(* directory; an entry of the filesystem is a directory or a file.         *)
(***************************************************************************)
\* the characters of r'\/:*?"<>|'
Unsafe == {"\\", "/", ":", "*", "?", "\"", "<", ">", "|"}

\* "".join(c if c not in r'\/:*?"<>|' else "_" for c in title)
safe_title(title) == [i \in 1..Len(title) |-> IF title[i] \in Unsafe THEN "_" ELSE title[i]]

RECURSIVE segments(_)
\* the segments pathlib makes of a string: the parts between '/', the empty
\* ones and '.' dropped
segments(s) ==
    IF s = <<>> \/ s = <<".">> THEN <<>>
    ELSE IF ~HasSlash(s) THEN <<s>>
    ELSE segments(SplitSlash(s).head) \o segments(SplitSlash(s).tail)

\* the root of the filesystem, as a segment no string gives
Root == <<"/">>

\* pathlib: dir / name; a name that starts with '/' replaces dir
path_join(dir, name) ==
    IF StartsWith(name, <<"/">>) THEN <<Root>> \o segments(name) ELSE dir \o segments(name)

Dir(p) == [path |-> p, kind |-> "dir", content |-> <<>>, refs |-> <<>>, note |-> None]
File(p, text, refs, note_id) ==
    [path |-> p, kind |-> "file", content |-> text, refs |-> refs, note |-> note_id]

IsFile(d, p) == \E e \in d : e.path = p /\ e.kind = "file"
IsDir(d, p) == \E e \in d : e.path = p /\ e.kind = "dir"
Prefixes(p) == { SubSeq(p, 1, k) : k \in 0..Len(p) }

\* the outcome of a call that writes: whether it returned, the filesystem it
\* left, and what it created, in order
Done(d, evs) == [ok |-> TRUE, disk |-> d, events |-> evs]
Raised(d, evs) == [ok |-> FALSE, disk |-> d, events |-> evs]
Made(op, p, id) == [op |-> op, path |-> p, id |-> id]

\* Path.mkdir(parents=True, exist_ok=True): FileExistsError when the path is a
\* file, NotADirectoryError when one of its parents is
mkdir(d, p) ==
    IF \E q \in Prefixes(p) : IsFile(d, q)
    THEN Raised(d, <<>>)
    ELSE Done(d \cup { Dir(q) : q \in Prefixes(p) }, <<>>)

\* open(path, "a") and the writes: what the file held stays in front
append_file(d, entry) ==
    LET old == { e \in d : e.path = entry.path /\ e.kind = "file" }
        held == IF old = {} THEN <<>> ELSE (CHOOSE e \in old : TRUE).content
    IN  IF IsDir(d, entry.path) \/ ~IsDir(d, SubSeq(entry.path, 1, Len(entry.path) - 1))
        THEN Raised(d, <<>>)
        ELSE Done({ e \in d : e.path # entry.path }
                  \cup {[entry EXCEPT !.content = held \o entry.content]}, <<>>)

\* open(path, "w") and the writes: the file is created or replaced;
\* IsADirectoryError when the path is a directory
write_file(d, entry) ==
    IF IsDir(d, entry.path) \/ ~IsDir(d, SubSeq(entry.path, 1, Len(entry.path) - 1))
    THEN Raised(d, <<>>)
    ELSE Done({ e \in d : e.path # entry.path } \cup {entry}, <<>>)

(***************************************************************************)
(* Table `resources`, joined over note_resources: two attachments of the   *)
(* first note, one with a payload and a file name, one with neither.       *)
(***************************************************************************)
RA == <<"e", "a">>
RB == <<"e", "b">>

ResourceRow(i, t, f, data, n) ==
    [id |-> i, title |-> t, filename |-> f, data |-> data, note_id |-> n]

ResourceTable ==
    << ResourceRow(RA, <<"S">>, <<"S">>, <<"P">>, NA),
       ResourceRow(RB, <<"H">>, <<>>, <<>>, NA) >>

\* JoplinDB.get_resources_for_note(note_id)
get_resources_for_note(note_id) ==
    LET Of(r) == r.note_id = note_id
    IN  OrderByTitle(SelectSeq(ResourceTable, Of))

\* JoplinDB.get_resource_data(resource_id)
get_resource_data(resource_id) ==
    LET Same(r) == r.id = resource_id
        rows == SelectSeq(ResourceTable, Same)
    IN  IF rows = <<>> THEN None ELSE rows[1].data

\* what a row of the connection answers to: row_factory = sqlite3.Row, a
\* class with indexing and keys() and without a method `get`
RowMethods == {"keys", "__getitem__", "__len__", "__iter__"}

attachments == <<"a", "t", "t", "a", "c", "h", "m", "e", "n", "t", "s">>

\* lines 324-360: one turn of the loop over the resources.  acc holds the
\* filesystem, saved_files and what was created so far.
extract_one(acc, resource, attachments_dir, out_dir) ==
    LET resource_data == get_resource_data(resource.id)
        filename == IF resource.filename # <<>> THEN resource.filename ELSE resource.title
        file_path == attachments_dir \o <<safe_title(filename)>>
        w == write_file(acc.disk, File(file_path, resource_data, <<>>, None))
    IN  IF resource_data = <<>> THEN acc                   \* `continue`
        ELSE IF "get" \notin RowMethods THEN acc           \* AttributeError, caught at 359
        ELSE IF ~w.ok THEN acc                             \* OSError, caught at 359
        ELSE [disk   |-> w.disk,
              saved  |-> acc.saved \cup {[title |-> resource.title,
                                          path  |-> SubSeq(file_path, Len(out_dir) + 1,
                                                           Len(file_path))]},
              events |-> Append(acc.events, Made("attachment", file_path, resource.id))]

RECURSIVE extract_each(_, _, _, _)
extract_each(acc, resources, attachments_dir, out_dir) ==
    IF resources = <<>> THEN acc
    ELSE extract_each(extract_one(acc, Head(resources), attachments_dir, out_dir),
                      Tail(resources), attachments_dir, out_dir)

\* extract_attachments(db, resources, note_title, out_dir)
extract_attachments(d, resources, note_title, out_dir) ==
    LET attachments_dir == path_join(path_join(out_dir, attachments), safe_title(note_title))
        m == mkdir(d, attachments_dir)
        r == extract_each([disk |-> m.disk, saved |-> {}, events |-> <<>>], resources,
                          attachments_dir, out_dir)
    IN  IF resources = <<>> THEN [ok |-> TRUE, disk |-> d, saved |-> {}, events |-> <<>>]
        ELSE IF ~m.ok THEN [ok |-> FALSE, disk |-> d, saved |-> {}, events |-> <<>>]
        ELSE [ok |-> TRUE, disk |-> r.disk, saved |-> r.saved, events |-> r.events]

\* lines 379-380: the extension of the note file
extension(format_type) == IF format_type = "md" THEN <<"m", "d">> ELSE <<"t", "x", "t">>

\* lines 393-397 and 416-420: the lines between the title and the body.  The
\* time stamps are not part of the storage modelled, no note has a tag; each
\* line is one token.
metadata_block(format_type) ==
    IF format_type = "md"
    THEN <<"*Created:*", "\n", "*Updated:*", "\n", "\n", "---", "\n", "\n">>
    ELSE <<"Created:", "\n", "Updated:", "\n", "\n", "-" , "\n", "\n">>

\* lines 390 and 412-413: the title line(s)
title_lines(format_type, title) ==
    IF format_type = "md"
    THEN <<"#", " ">> \o title \o <<"\n", "\n">>
    ELSE title \o <<"\n">> \o [i \in 1..Len(title) |-> "="] \o <<"\n", "\n">>

\* lines 403 and 426: the line that opens the list of attachments
attachments_title(format_type) ==
    IF format_type = "md" THEN <<"\n", "## Attachments", "\n">>
    ELSE <<"\n", "\n", "Attachments:", "\n">>

\* a file that holds the body and nothing else
note_text_body(format_type, title, body, include_metadata, resources) == body

\* lines 388-431: the text written to the note file, the list entries apart
note_text(format_type, title, body, include_metadata, resources) ==
    title_lines(format_type, title)
    \o (IF include_metadata THEN metadata_block(format_type) ELSE <<>>)
    \o body \o <<"\n">>
    \o (IF include_metadata /\ resources # <<>> THEN attachments_title(format_type) ELSE <<>>)

unknown == <<"u", "n", "k", "n", "o", "w", "n">>

\* lines 404-409 and 427-431: the entry of each resource: its title and the
\* saved path, or else res['filename'] or 'unknown'
note_refs(include_metadata, resources, saved) ==
    LET Target(res) ==
            IF \E s \in saved : s.title = res.title
            THEN (CHOOSE s \in saved : s.title = res.title).path
            ELSE IF res.filename # <<>> THEN <<res.filename>> ELSE <<unknown>>
    IN  IF include_metadata
        THEN [i \in 1..Len(resources) |->
                 [title |-> resources[i].title, target |-> Target(resources[i])]]
        ELSE <<>>

\* export_note_to_format(note, tags, resources, out_dir, format_type,
\* include_metadata, db)
export_note_to_format(d, note, resources, out_dir, format_type, include_metadata) ==
    LET m == mkdir(d, out_dir)
        file_path == path_join(out_dir, safe_title(note.title) \o <<".">> \o extension(format_type))
        x == IF include_metadata /\ resources # <<>>
             THEN extract_attachments(m.disk, resources, note.title, out_dir)
             ELSE [ok |-> TRUE, disk |-> m.disk, saved |-> {}, events |-> <<>>]
        text == note_text(format_type, note.title, note.body, include_metadata, resources)
        w == write_file(x.disk, File(file_path, text,
                                     note_refs(include_metadata, resources, x.saved), note.id))
    IN  IF ~m.ok THEN Raised(d, <<>>)
        ELSE IF ~x.ok THEN Raised(x.disk, x.events)
        ELSE IF ~w.ok THEN Raised(x.disk, x.events)
        ELSE Done(w.disk, Append(x.events, Made("note", file_path, note.id)))

(***************************************************************************)
(* Storage contents for the export: a tree of four folders; a storage with *)
(* titles that hold characters a file name cannot; and one in which a      *)
(* folder is titled like the file of a note beside it.                     *)
(***************************************************************************)
FD == <<"b", "b">>
NC == <<"c", "c">>
NE == <<"d", "b">>

TreeStorage ==
    [folders |-> << FolderRow(FA, <<"W">>, <<>>),
                    FolderRow(FB, <<"H">>, FA),
                    FolderRow(FC, <<"D">>, FA),
                    FolderRow(FD, <<"S">>, FC) >>,
     notes   |-> << NoteRow(NA, <<"T">>, OrigBody, FA),
                    NoteRow(NB, <<"P">>, <<>>, FA),
                    NoteRow(NC, <<"S">>, OrigBody, FB),
                    NoteRow(ND, <<"D">>, OrigBody, FC),
                    NoteRow(NE, <<"H">>, EditedBody, FD) >>]

UnsafeStorage ==
    [folders |-> << FolderRow(FA, <<"W", "/", "H">>, <<>>),
                    FolderRow(FB, <<"D">>, <<>>) >>,
     notes   |-> << NoteRow(NA, <<"T", ":">>, OrigBody, FA),
                    NoteRow(NB, <<"T", "*">>, EditedBody, FA),
                    NoteRow(ND, <<"P", "/", "D">>, OrigBody, FB) >>]

ClashStorage ==
    [folders |-> << FolderRow(FA, <<"W">>, <<>>),
                    FolderRow(FB, <<"T", ".", "m", "d">>, FA) >>,
     notes   |-> << NoteRow(NA, <<"T">>, OrigBody, FA),
                    NoteRow(NB, <<"P">>, OrigBody, FB) >>]

ExportStorages == { TreeStorage, UnsafeStorage, ClashStorage }

\* tree exports started one after the other
MaxRuns == 2

\* calls of export_notebook_recursive open at a time, the caller's loop counted
MaxDepth == 5

\* one open call of export_notebook_recursive: its folder and folder_dir, the
\* notes and sub-folders its loops still have to visit, and whether line 457
\* has listed the sub-folders.  The lowest frame is the caller's loop.
Frame(fid, dir, ns, subs, listed) ==
    [folder |-> fid, dir |-> dir, notes |-> ns, subs |-> subs, listed |-> listed]

\* the export directory
export_dir == <<>>

\* the session reached a folder of its storage, or stayed at the root level;
\* the options of the command line are any
ExportInit ==
    /\ \E st \in ExportStorages : folders = st.folders /\ notes = st.notes
    /\ READLINE_AVAILABLE = TRUE
    /\ HAVE_TERMIOS = TRUE
    /\ stdin_tty = TRUE
    /\ WRITE_MODE = FALSE
    /\ current_folder_id \in {None} \cup Range(Ids(folders))
    /\ history = <<>>
    /\ prompt = <<>>
    /\ pc = "input"
    /\ cmd = EmptyLine
    /\ event = "none"
    /\ out = Msg("", <<>>)
    /\ before = None
    /\ before_history = <<>>
    /\ stdin_eof = FALSE
    /\ db_open = TRUE
    /\ exit_cause = "none"
    /\ ReadIdle
    /\ WalkIdle
    /\ disk = {}
    /\ ex_pc = "idle"
    /\ ex_stack = <<>>
    /\ ex_log = <<>>
    /\ ex_format \in {"md", "txt"}
    /\ ex_meta \in BOOLEAN
    /\ ex_runs = 0
    /\ disk_first = {}

exportFrame ==
    UNCHANGED <<folders, notes, envVars, navVars, sessVars, readVars, walkVars, ex_format,
                ex_meta>>

\* the command is read when no export runs
ExportReady == ex_pc \in {"idle", "done"}

\* an export that looks the current folder up among all folders, and at the
\* root level starts from every folder
export_targets_any(tbl, cur) ==
    LET Same(f) == f.id = cur
    IN  IF cur = None THEN tbl ELSE SelectSeq(tbl, Same)

\* lines 823-836 (and 972-975): `e` without argument; the folders the loop of
\* the caller goes through
export_targets(tbl, cur) ==
    LET Same(f) == f.id = cur
    IN  IF cur = None THEN get_folders(tbl, None)
        ELSE SelectSeq(get_folders(tbl, None), Same)

ExStart ==
    /\ ExportReady
    /\ ex_runs < MaxRuns
    /\ ex_pc' = "run"
    /\ ex_log' = <<>>
    /\ ex_stack' = << Frame(None, export_dir, <<>>,
                            export_targets(folders, current_folder_id), TRUE) >>
    /\ UNCHANGED <<disk, ex_runs, disk_first>>
    /\ exportFrame

Top == ex_stack[Len(ex_stack)]
Below == SubSeq(ex_stack, 1, Len(ex_stack) - 1)

\* lines 458-459 (828, 833, 979) with 446-450: the next sub-folder is entered
ExEnter ==
    /\ ex_pc = "run"
    /\ ex_stack # <<>> /\ Top.notes = <<>> /\ Top.listed /\ Top.subs # <<>>
    /\ Len(ex_stack) < MaxDepth
    /\ LET folder == Head(Top.subs)
           folder_dir == path_join(Top.dir, folder.title)
           m == mkdir(disk, folder_dir)
       IN  IF m.ok
           THEN /\ disk' = m.disk
                /\ ex_log' = Append(ex_log, Made("folder", folder_dir, folder.id))
                /\ ex_stack' = Below
                      \o << [Top EXCEPT !.subs = Tail(Top.subs)],
                            Frame(folder.id, folder_dir,
                                  get_notes_in_folder(notes, folder.id), <<>>, FALSE) >>
                /\ ex_pc' = "run"
           ELSE /\ ex_pc' = "failed"
                /\ UNCHANGED <<disk, ex_log, ex_stack>>
    /\ UNCHANGED <<ex_runs, disk_first>>
    /\ exportFrame

\* lines 451-454: the next note of the folder is exported
ExNote ==
    /\ ex_pc = "run"
    /\ ex_stack # <<>> /\ Top.notes # <<>>
    /\ LET note == Head(Top.notes)
           r == export_note_to_format(disk, note, get_resources_for_note(note.id), Top.dir,
                                      ex_format, ex_meta)
       IN  /\ disk' = r.disk
           /\ ex_log' = ex_log \o r.events
           /\ IF r.ok
              THEN /\ ex_stack' = Below \o << [Top EXCEPT !.notes = Tail(Top.notes)] >>
                   /\ ex_pc' = "run"
              ELSE /\ ex_pc' = "failed"
                   /\ UNCHANGED ex_stack
    /\ UNCHANGED <<ex_runs, disk_first>>
    /\ exportFrame

\* line 457: subfolders = db.get_folders(folder["id"])
ExList ==
    /\ ex_pc = "run"
    /\ ex_stack # <<>> /\ Top.notes = <<>> /\ ~Top.listed
    /\ ex_stack' = Below \o << [Top EXCEPT !.subs = get_folders(folders, Top.folder),
                                           !.listed = TRUE] >>
    /\ UNCHANGED <<disk, ex_pc, ex_log, ex_runs, disk_first>>
    /\ exportFrame

\* export_notebook_recursive returns
ExReturn ==
    /\ ex_pc = "run"
    /\ Len(ex_stack) > 1 /\ Top.notes = <<>> /\ Top.listed /\ Top.subs = <<>>
    /\ ex_stack' = Below
    /\ UNCHANGED <<disk, ex_pc, ex_log, ex_runs, disk_first>>
    /\ exportFrame

\* line 836 (980): the loop of the caller is through
ExFinish ==
    /\ ex_pc = "run"
    /\ Len(ex_stack) = 1 /\ Top.subs = <<>>
    /\ ex_stack' = <<>>
    /\ ex_pc' = "done"
    /\ ex_runs' = ex_runs + 1
    /\ disk_first' = IF ex_runs = 0 THEN disk ELSE disk_first
    /\ UNCHANGED <<disk, ex_log>>
    /\ exportFrame

\* lines 838-848: `e <note-id>` exports one note into the export directory;
\* the exports of the tree are counted anew after it
ExSingle ==
    /\ ExportReady
    /\ \E n \in Range(notes) :
          LET r == export_note_to_format(disk, n, get_resources_for_note(n.id), export_dir,
                                         ex_format, ex_meta)
          IN  /\ disk' = r.disk
              /\ ex_log' = r.events
              /\ ex_pc' = IF r.ok THEN "done" ELSE "failed"
    /\ ex_runs' = 0
    /\ disk_first' = {}
    /\ UNCHANGED ex_stack
    /\ exportFrame

ExportNext ==
    \/ ExStart
    \/ ExEnter
    \/ ExNote
    \/ ExList
    \/ ExReturn
    \/ ExFinish
    \/ ExSingle

ExportSpec == ExportInit /\ [][ExportNext]_vars

(***************************************************************************)
(* The export over storages of any content: a folder that is its own       *)
(* parent and two folders that are each other's parent, beside a folder at *)
(* root level; and a folder at root level whose id is the empty string,    *)
(* the value that parent_id holds for a folder at root level.              *)
(***************************************************************************)
LoopStorage ==
    [folders |-> << FolderRow(FA, <<"W">>, <<>>),
                    FolderRow(FB, <<"H">>, FB),
                    FolderRow(FC, <<"D">>, FD),
                    FolderRow(FD, <<"S">>, FC) >>,
     notes   |-> << NoteRow(NA, <<"T">>, OrigBody, FA),
                    NoteRow(NB, <<"P">>, OrigBody, FB),
                    NoteRow(ND, <<"D">>, OrigBody, FC) >>]

EmptyIdStorage ==
    [folders |-> << FolderRow(<<>>, <<"W">>, <<>>),
                    FolderRow(FA, <<"H">>, <<>>) >>,
     notes   |-> << NoteRow(NA, <<"T">>, OrigBody, FA) >>]

AnyStorages == { TreeStorage, LoopStorage, EmptyIdStorage }

\* as ExportInit, with the options of the command line at their defaults:
\* they change what a file holds, not which folders the walk enters
AnyExportInit ==
    /\ \E st \in AnyStorages : folders = st.folders /\ notes = st.notes
    /\ READLINE_AVAILABLE = TRUE
    /\ HAVE_TERMIOS = TRUE
    /\ stdin_tty = TRUE
    /\ WRITE_MODE = FALSE
    /\ current_folder_id \in {None} \cup Range(Ids(folders))
    /\ history = <<>>
    /\ prompt = <<>>
    /\ pc = "input"
    /\ cmd = EmptyLine
    /\ event = "none"
    /\ out = Msg("", <<>>)
    /\ before = None
    /\ before_history = <<>>
    /\ stdin_eof = FALSE
    /\ db_open = TRUE
    /\ exit_cause = "none"
    /\ ReadIdle
    /\ WalkIdle
    /\ disk = {}
    /\ ex_pc = "idle"
    /\ ex_stack = <<>>
    /\ ex_log = <<>>
    /\ ex_format = "md"
    /\ ex_meta = FALSE
    /\ ex_runs = 0
    /\ disk_first = {}

AnyExportSpec == AnyExportInit /\ [][ExportNext]_vars

\* a step of an export that runs; the command that starts one waits for the user
ExStep == ExEnter \/ ExNote \/ ExList \/ ExReturn \/ ExFinish

\* the export is one thread that goes on by itself
FairAnyExportSpec == AnyExportSpec /\ WF_vars(ExStep)

(***************************************************************************)
(* The session over storages whose folders are not all below the root      *)
(* level: a tree, a chain, a folder that is its own parent, two folders    *)
(* that are each other's parent, and a folder whose parent is no folder.   *)
(***************************************************************************)
Parents(p1, p2, p3) ==
    << FolderRow(FA, <<"W">>, p1), FolderRow(FB, <<"H">>, p2), FolderRow(FC, <<"D">>, p3) >>

NavFolders ==
    { Parents(<<>>, <<>>, FA), Parents(<<>>, FA, FB), Parents(<<>>, <<>>, FC),
      Parents(<<>>, FC, FB), Parents(<<>>, <<>>, Dangling) }

NavInit ==
    /\ folders \in NavFolders
    /\ notes = Layout(FA, FA).notes
    /\ \E env \in Environments :
          /\ READLINE_AVAILABLE = env.readline
          /\ HAVE_TERMIOS = env.termios
          /\ stdin_tty = env.tty
    /\ WRITE_MODE = FALSE
    /\ sessIdle
    /\ ReadIdle
    /\ WalkIdle
    /\ ExportIdle

NavSpec == NavInit /\ [][Next]_vars

(***************************************************************************)
(* Properties.                                                             *)
(***************************************************************************)
CdUp == Line("cd", <<".", ".">>)
CdTokens == CdArgs \ {<<>>, <<".", ".">>, <<"/">>}

\* C1: a successful `cd <id>` immediately followed by `cd ..` leaves the
\* current folder equal to what it was just before the `cd <id>`, also when
\* that was the root level with a non-empty back-stack.
C1_RoundTrip ==
    [][ ( /\ pc = "input" /\ cmd.action = "cd" /\ out.msg = "Entered"
          /\ pc' = "prompt" /\ cmd' = CdUp )
        => current_folder_id' = before ]_vars

\* C2: for `cd <token>` the candidates are exactly the direct children of the
\* current folder (the root-level folders when there is none) whose id starts
\* with the token; one candidate becomes the current folder, none reports
\* "not found" and enters nothing, several are all reported and nothing is
\* entered.
C2_FolderResolution ==
    [][ \A tok \in CdTokens :
          ( pc = "input" /\ pc' = "prompt" /\ cmd' = Line("cd", tok) ) =>
            LET cands == { f.id : f \in { g \in Range(folders) :
                                 /\ g.parent_id = current_folder_id
                                 /\ StartsWith(g.id, tok) } }
            IN  /\ Cardinality(cands) = 1 =>
                     /\ current_folder_id' \in cands
                     /\ out'.msg = "Entered"
                /\ cands = {} =>
                     /\ UNCHANGED navVars
                     /\ out' = Msg("Folder not found.", <<>>)
                /\ Cardinality(cands) >= 2 =>
                     /\ UNCHANGED navVars
                     /\ out'.msg = "Ambiguous ID - matches:"
                     /\ Range(out'.ids) = cands ]_vars

\* C2 witness: a one-character prefix with a single candidate below the
\* current folder has been entered
C2_Witness ==
    /\ cmd = Line("cd", <<"b">>)
    /\ out.msg = "Entered"
    /\ before = FA
    /\ current_folder_id = FC

\* C3: in `folder-token/note-token` the folder token is resolved against all
\* folders, at any depth: when one folder of the storage has an id starting
\* with the folder token and one note of that folder has an id starting with
\* the note token, `n` shows that note.
C3_QualifiedAnyDepth ==
    ( cmd.action = "n" /\ HasSlash(cmd.arg) ) =>
        LET ftok == SplitSlash(cmd.arg).head
            ntok == SplitSlash(cmd.arg).tail
            fs == { f.id : f \in { g \in Range(folders) : StartsWith(g.id, ftok) } }
            ns == { n.id : n \in { m \in Range(notes) :
                           m.parent_id \in fs /\ StartsWith(m.id, ntok) } }
        IN  ( Cardinality(fs) = 1 /\ Cardinality(ns) = 1 ) =>
                ( out.msg = "note" /\ Range(out.ids) = ns )

\* C4: in `folder-token/note-token`, when the folder token is a prefix of the
\* ids of two or more folders, no note is returned.
C4_QualifiedAmbiguousFolder ==
    ( cmd.action = "n" /\ HasSlash(cmd.arg) ) =>
        LET ftok == SplitSlash(cmd.arg).head
            fs == { g \in Range(folders) : StartsWith(g.id, ftok) }
        IN  Cardinality(fs) >= 2 => out.msg # "note"

\* C5: a bare note token returns a note exactly when the note's full id is
\* the token, or no note has that id, a current folder is set and the note
\* is the only note of the current folder whose id starts with the token.
C5_BareToken ==
    \A id \in {NA, NB, ND} :
      ( cmd.action \in {"n", "cat"} /\ cmd.arg # <<>> /\ ~HasSlash(cmd.arg) ) =>
        LET exact == { n.id : n \in { m \in Range(notes) : m.id = cmd.arg } }
            scoped == { n.id : n \in { m \in Range(notes) :
                               /\ m.parent_id = before
                               /\ StartsWith(m.id, cmd.arg) } }
        IN  ( out = Msg("note", <<id>>) )
            <=> \/ exact = {id}
                \/ ( exact = {} /\ before # None /\ scoped = {id} )

\* C5 witness: a proper prefix resolved inside the current folder
C5_Witness ==
    /\ cmd = Line("n", <<"d">>)
    /\ current_folder_id = FC
    /\ out = Msg("note", <<ND>>)

\* C6: a `cd` whose token has no candidate or several, or that has no
\* argument, leaves the current folder and the back-stack as they were.
C6_FailedCdKeepsState ==
    [][ ( /\ pc = "input" /\ pc' = "prompt" /\ cmd'.action = "cd"
          /\ cmd'.arg \notin {<<".", ".">>, <<"/">>}
          /\ LET cands == { g \in Range(folders) :
                              /\ g.parent_id = current_folder_id
                              /\ StartsWith(g.id, cmd'.arg) }
             IN  cmd'.arg = <<>> \/ Cardinality(cands) # 1 )
        => UNCHANGED navVars ]_vars

\* C6 witness: an ambiguous token was given inside a folder reached earlier,
\* with a back-stack to lose
C6_Witness ==
    /\ cmd = Line("cd", <<"a">>)
    /\ out.msg = "Ambiguous ID - matches:"
    /\ history # <<>>

\* C7: after a command line the loop is left only by q / quit / exit.
C7_OnlyQuitLeaves ==
    ( pc = "done" /\ event = "line" ) => cmd.action \in {"q", "quit", "exit"}

\* C8: Ctrl-C at a read gives the empty line and the session goes on, under
\* every input backend.
C8_CtrlCContinues ==
    event = "ctrl_c" => ( pc # "done" /\ cmd = EmptyLine )

\* C9: once standard input is at end-of-file, the session eventually leaves
\* its loop and the storage connection is closed.
C9_EofExits == stdin_eof ~> ~db_open

\* C10: when a call of the raw-mode reader that set the terminal raw has
\* finished (by Enter, by Ctrl-C, or by an exception, after which it reads a
\* plain line), the terminal has its original settings.
C10_TerminalRestored ==
    ( rd_pc \in {"plain", "returned", "raised"}
      /\ rd_via \in {"enter", "ctrl_c", "exception"} )
    => term_mode = "cooked"

\* C10 witness: a call that failed while reading a byte has finished through
\* the plain line read
C10_Witness ==
    /\ rd_pc = "returned"
    /\ rd_via = "exception"
    /\ rd_ret = <<"x">>
    /\ term_mode = "cooked"

(***************************************************************************)
(* Properties of the raw-mode line reader.                                 *)
(***************************************************************************)
\* the step in which the third byte of ESC [ <key> is processed
ArrowStep(keys) ==
    rd_pc = "esc2" /\ rd_next1 = "[" /\ rd_pc' = "loop" /\ rd_ch' \in keys

\* the step in which Enter, or Ctrl-C, is processed
ReturnStep(key) == rd_pc = "loop" /\ rd_pc' = "returned" /\ rd_ch' = key

\* a cell of a row, or of a text as long as a row
Cell(s, i) == IF i <= Len(s) THEN s[i] ELSE " "

\* the row shows the text and nothing else
Shows(row, text) ==
    \A i \in 1..Max(Len(row), Len(text)) : Cell(row, i) = Cell(text, i)

\* C11: after every byte of a raw-mode read the cursor index is within
\* 0..len(buffer); a left or right arrow moves the cursor by at most one and
\* leaves the buffer as it is.
C11_CursorInBuffer ==
    /\ [](0 <= cursor_position /\ cursor_position <= Len(current_input))
    /\ [][ ArrowStep({"C", "D"}) =>
             /\ current_input' = current_input
             /\ cursor_position' - cursor_position \in {-1, 0, 1} ]_vars

\* C11 witness: left arrows have taken the cursor from the end of a
\* two-character buffer to its start
C11_Witness ==
    /\ rd_pc = "loop"
    /\ rd_next1 = "[" /\ rd_ch = "D"
    /\ Len(current_input) = 2
    /\ cursor_position = 0

\* C12: when ESC is followed by a byte other than `[`, the byte after that one
\* is handled as ordinary input: a printable byte is inserted at the cursor,
\* Enter returns the buffer, Ctrl-C returns the empty line.
C12_MalformedEscape ==
    [][ ( rd_pc = "esc2" /\ rd_next1 # "[" /\ rd_pc' # "plain" ) =>
          /\ rd_ch' \in Typed =>
                /\ current_input' = insert(current_input, cursor_position, rd_ch').buf
                /\ cursor_position' = cursor_position + 1
          /\ rd_ch' = "CR" => ( rd_pc' = "returned" /\ rd_ret' = current_input )
          /\ rd_ch' = "ETX" => ( rd_pc' = "returned" /\ rd_ret' = <<>> ) ]_vars

\* C13: an Up arrow with an empty history leaves buffer and cursor as they
\* are; with a non-empty history the buffer becomes the most recent entry,
\* never an older one, and the cursor goes to its end, unless the buffer was
\* that entry already, and then nothing changes.
C13_UpArrowRecall ==
    [][ ArrowStep({"A"}) =>
          IF command_history = <<>>
          THEN UNCHANGED <<current_input, cursor_position>>
          ELSE LET last == command_history[Len(command_history)]
               IN  /\ current_input' = last
                   /\ IF current_input = last
                      THEN UNCHANGED cursor_position
                      ELSE cursor_position' = Len(last) ]_vars

\* C13 witness: after an Up arrow, with two different lines in the history,
\* the buffer holds the later one and the cursor is at its end
C13_Witness ==
    /\ rd_pc = "loop"
    /\ rd_next1 = "[" /\ rd_ch = "A"
    /\ Len(command_history) = 2
    /\ command_history[1] # command_history[2]
    /\ current_input = command_history[2]
    /\ cursor_position = Len(current_input)

\* C14: the history changes only when Enter is processed; Enter appends the
\* buffer as it is when it is non-blank after trimming and nothing otherwise,
\* and returns the buffer; Ctrl-C returns the empty string; entries are never
\* removed or reordered.
C14_HistoryOnlyOnEnter ==
    [][ /\ ReturnStep("CR") =>
             /\ rd_ret' = current_input
             /\ command_history' =
                    IF \E i \in 1..Len(current_input) : current_input[i] # " "
                    THEN command_history \o <<current_input>>
                    ELSE command_history
        /\ ReturnStep("ETX") => ( rd_ret' = <<>> /\ UNCHANGED command_history )
        /\ ~ReturnStep("CR") => UNCHANGED command_history ]_vars

\* C14 witness: Enter has appended a line with a leading blank, untrimmed,
\* behind an earlier line
C14_Witness ==
    /\ rd_pc = "returned"
    /\ rd_ch = "CR"
    /\ rd_ret = <<" ", "x">>
    /\ command_history = << <<"x">>, <<" ", "x">> >>

\* C15: after every change of the buffer (insert, backspace, Up-arrow recall,
\* Down-arrow clear) the terminal row shows prompt + buffer and nothing else.
C15_RowShowsLine ==
    [][ ( Reading /\ rd_pc' = "loop" /\ current_input' # current_input ) =>
          Shows(screen', p_text \o current_input') ]_vars

\* C16: after every processed byte of a raw-mode read the terminal cursor is
\* in column len(prompt) + cursor.
C16_VisibleCursor ==
    ( Reading /\ rd_ch # "none" ) => column = Len(p_text) + cursor_position

\* C17: the number of lines in the session's history never exceeds a fixed
\* bound, under each input backend.
C17_HistoryCapped == Len(command_history) <= HISTORY_LENGTH

RECURSIVE TitleChain(_, _)
\* the titles from the root-level ancestor of folder fid down to fid
TitleChain(tbl, fid) ==
    IF fid = None THEN <<>>
    ELSE LET f == CHOOSE g \in Range(tbl) : g.id = fid
         IN  TitleChain(tbl, f.parent_id) \o <<f.title>>

\* C19: the path of the prompt is the titles along the ancestor chain of the
\* current folder, from the root level down; it is empty only when there is
\* no current folder.
C19_PromptPath ==
    pc = "input" => prompt = TitleChain(folders, current_folder_id)

\* C20: the walk that builds the prompt path ends, whatever the storage
\* holds: a folder that is its own parent, parent links in a cycle, a
\* parent id that names no folder.
C20_WalkEnds == (walk_pc = "while") ~> (walk_pc = "done")

\* C20 witness: the walk has ended for a current folder that is its own
\* parent and whose parent link the other folders complete to a cycle
C20_Witness ==
    /\ walk_pc = "done"
    /\ current_folder_id = FA
    /\ folders[1].parent_id = FA
    /\ folders[2].parent_id = FC
    /\ folders[3].parent_id = FB

(***************************************************************************)
(* Properties of the session's commands.                                   *)
(***************************************************************************)
\* C21: the storage is modified only by the edit command, only in write
\* mode and only when the new text differs from the note's body; the write
\* changes the body of that one note and nothing else.
C21_StorageWrites ==
    [][ ( notes' # notes \/ folders' # folders ) =>
          /\ folders' = folders
          /\ pc = "input"
          /\ cmd'.action \in {"vim", "edit", "vi"}
          /\ WRITE_MODE
          /\ Len(notes') = Len(notes)
          /\ \E i \in 1..Len(notes) :
                /\ out'.ids = <<notes[i].id>>
                /\ notes'[i].body # notes[i].body
                /\ notes'[i] = [notes[i] EXCEPT !.body = notes'[i].body]
                /\ \A j \in 1..Len(notes) : j # i => notes'[j] = notes[j] ]_vars

\* C21 witness: in write mode an edit has replaced the body of the first note
C21_Witness ==
    /\ WRITE_MODE
    /\ cmd = Line("vim", NA)
    /\ out = Msg("updated in database", <<NA>>)
    /\ notes[1].body = EditedBody
    /\ notes[2].body = OrigBody

\* C22: a command other than `cd` (go, enter), whatever it prints, leaves
\* the current folder and the back-stack as they were when it started.
C22_OnlyCdNavigates ==
    cmd.action \notin {"cd", "go", "enter"} =>
        ( current_folder_id = before /\ history = before_history )

\* C22 witness: inside a folder, with a back-stack, a note was not found
C22_Witness ==
    /\ cmd = Line("n", <<"z", "/", "c">>)
    /\ out.msg = "Notebook not found."
    /\ current_folder_id = FC
    /\ history = <<FA>>

\* the parent_id of folder fid
ParentOf(tbl, fid) == (CHOOSE g \in Range(tbl) : g.id = fid).parent_id

\* C29: from a state whose current folder is F, `cd ..` makes F's parent
\* folder the current folder (none when F is at root level).
C29_CdUpToParent ==
    [][ ( /\ pc = "input" /\ current_folder_id # None
          /\ pc' = "prompt" /\ cmd' = CdUp )
        => current_folder_id' = ParentOf(folders, current_folder_id) ]_vars

\* C30: `e` without an argument exports the current folder, at whatever
\* depth it is; only without a current folder it exports all root-level
\* notebooks.
C30_ExportCurrent ==
    cmd = Line("e", <<>>) =>
        IF before = None
        THEN out.msg = "Exporting all"
        ELSE out = Msg("Exporting notebook", <<before>>)

\* the text of a note file without its title lines and its final newline
read_body(format_type, title, text) ==
    LET h == title_lines(format_type, title)
    IN  IF StartsWith(text, h) /\ Len(text) > Len(h) /\ text[Len(text)] = "\n"
        THEN [ok |-> TRUE, body |-> SubSeq(text, Len(h) + 1, Len(text) - 1)]
        ELSE [ok |-> FALSE, body |-> <<>>]

NoteFiles == { e \in disk : e.kind = "file" /\ e.note # None }

\* C23: for every note, exporting it without metadata (format md or txt)
\* produces a file whose content, read back, is identical to the note's body.
C23_BodyOnly ==
    ~ex_meta => \A e \in NoteFiles : e.content = BodyOf(notes, e.note)

\* C23 (amended): for every note, exporting it without metadata (format md
\* or txt) produces a file whose content is the title lines of the format,
\* then the note's body, then one newline; read back without the title lines
\* and the final newline, it is identical to the note's body.
C23_BodyAfterTitle ==
    ~ex_meta => \A e \in NoteFiles :
        read_body(ex_format, TitleOf(notes, e.note), e.content)
            = [ok |-> TRUE, body |-> BodyOf(notes, e.note)]

C23_Witness ==
    /\ ~ex_meta /\ ex_format = "txt" /\ ex_pc = "done"
    /\ \E e \in NoteFiles : e.note = NA /\ e.content = <<"T", "\n", "=", "\n", "\n", "P", "\n">>
    /\ \E e \in NoteFiles : e.note = NB /\ BodyOf(notes, NB) = <<>>

\* the events the last step added to the log of a running export
Logged(k) == ex_pc = "run" /\ ex_pc' # "done" /\ k \in (Len(ex_log) + 1)..Len(ex_log')

\* C24: for every folder and every note visited by an export, the directory
\* or file created for it has a name equal to the title with each of the
\* characters \ / : * ? " < > | replaced by `_`, and is a single path segment
\* directly under its parent's export directory.
C24_SingleSegment ==
    [][ \A k \in 1..Len(ex_log') : Logged(k) =>
          LET ev == ex_log'[k]
          IN  /\ ev.op = "folder" =>
                    ev.path = Top.dir \o <<safe_title(TitleOf(folders, ev.id))>>
              /\ ev.op = "note" =>
                    ev.path = Top.dir \o <<safe_title(TitleOf(notes, ev.id)) \o <<".">>
                                            \o extension(ex_format)>> ]_vars

FilesIn(d, dir) ==
    { e \in d : e.kind = "file" /\ SubSeq(e.path, 1, Len(e.path) - 1) = dir /\ e.path # <<>> }

\* C26: after a folder is exported, its export directory contains one
\* distinct note file for each note of that folder, also when two notes of
\* the folder have the same title or titles equal after the substitution.
C26_OneFilePerNote ==
    [][ ( ex_pc = "run" /\ Len(ex_stack) > 1 /\ ex_stack' = Below )
        => Cardinality(FilesIn(disk, Top.dir)) = Len(get_notes_in_folder(notes, Top.folder))
      ]_vars

RECURSIVE Above(_, _, _)
\* the folders above a folder, n links up at most
Above(tbl, fid, n) ==
    LET Same(f) == f.id = fid
        row == SelectSeq(tbl, Same)
    IN  IF n = 0 \/ row = <<>> \/ row[1].parent_id = <<>> THEN {}
        ELSE {row[1].parent_id} \cup Above(tbl, row[1].parent_id, n - 1)

\* the folder an entry of the log belongs to
Owner(ev) == IF ev.op = "folder" THEN ev.id ELSE ParentOf(notes, ev.id)

\* the folder is s or lies below s
Within(fid, s) == fid = s \/ s \in Above(folders, fid, Len(folders))

\* the log is that of a walk: it opens with the folder entered first
WalkLog == ex_log # <<>> /\ ex_log[1].op = "folder"

\* C27: the export walk is depth-first pre-order: all notes of a folder are
\* written before any note of a folder below it, and sibling sub-folders are
\* visited in alphabetical order of title, each subtree completed before the
\* next sibling starts.
C27_PreOrder ==
  WalkLog =>
    /\ \A j \in 1..Len(ex_log) : \A n \in Range(notes) :
          ( ex_log[j].op = "note"
            /\ n.parent_id \in Above(folders, Owner(ex_log[j]), Len(folders)) )
          => \E i \in 1..(j - 1) : ex_log[i].op = "note" /\ ex_log[i].id = n.id
    /\ \A i, j \in 1..Len(ex_log) : \A s, t \in Range(folders) :
          ( /\ s.parent_id = t.parent_id /\ s.title # t.title /\ StrLeq(s.title, t.title)
            /\ Within(Owner(ex_log[i]), s.id) /\ Within(Owner(ex_log[j]), t.id) )
          => i < j

C27_Witness ==
    /\ folders = TreeStorage.folders /\ ex_pc = "done"
    /\ [k \in 1..Len(ex_log) |-> ex_log[k].id] = <<FA, NB, NA, FC, ND, FD, NE, FB, NC>>

\* C28: with metadata, for every attachment of a note that has a payload, a
\* file holding that payload is written under attachments/<sanitized note
\* title>/ before the note file is written, and the note file's entry for the
\* attachment references that saved path.
C28_AttachmentsSaved ==
    ex_meta => \A j \in 1..Len(ex_log) : \A res \in Range(ResourceTable) :
        ( ex_log[j].op = "note" /\ res.note_id = ex_log[j].id /\ res.data # <<>> )
        => \E i \in 1..(j - 1) :
              LET out_dir == SubSeq(ex_log[j].path, 1, Len(ex_log[j].path) - 1)
                  into == out_dir \o <<attachments, safe_title(TitleOf(notes, res.note_id))>>
                  saved == ex_log[i].path
              IN  /\ ex_log[i].op = "attachment" /\ ex_log[i].id = res.id
                  /\ StartsWith(saved, into) /\ Len(saved) = Len(into) + 1
                  /\ \E e \in disk : e.path = saved /\ e.content = res.data
                  /\ \E e \in NoteFiles :
                        /\ e.path = ex_log[j].path
                        /\ \E r \in Range(e.refs) :
                              /\ r.title = res.title
                              /\ r.target = SubSeq(saved, Len(out_dir) + 1, Len(saved))

RECURSIVE Reach(_, _, _)
\* the ids reached from ids by n links from a parent to its children
Reach(tbl, ids, n) ==
    IF n = 0 THEN ids
    ELSE Reach(tbl, ids \cup { f.id : f \in { g \in Range(tbl) : g.parent_id \in ids } }, n - 1)

\* the folders a chain of child folders leads to from the root level
Reachable(tbl) == Reach(tbl, {None}, Len(tbl)) \ {None}

\* C31: after any sequence of commands the current folder is absent or the
\* id of a folder that a successful `cd` resolved from the storage, and every
\* element of the back-stack is such an id, never the absent value; every id
\* held is one that a chain of child folders reaches from the root level.
C31_NavState ==
    /\ [] ( /\ current_folder_id \in {None} \cup Reachable(folders)
            /\ \A i \in 1..Len(history) :
                  history[i] # None /\ history[i] \in Reachable(folders) )
    /\ [][ /\ ( current_folder_id' # current_folder_id /\ current_folder_id' # None )
              => /\ cmd'.action \in {"cd", "go", "enter"}
                 /\ \/ out'.msg = "Entered" /\ out'.ids = <<current_folder_id'>>
                    \/ /\ cmd' = CdUp /\ history # <<>>
                       /\ current_folder_id' = history[Len(history)]
           /\ history' # history
              => \/ history' = SubSeq(history, 1, Len(history) - 1)
                 \/ current_folder_id # None /\ history' = Append(history, current_folder_id)
       ]_vars

C31_Witness ==
    /\ folders = Parents(<<>>, <<>>, FC)
    /\ cmd = Line("cd", FB) /\ out = Msg("Entered", <<FB>>)
    /\ current_folder_id = FB /\ history = <<FA>>

\* no folder has two calls of export_notebook_recursive open at a time
NoTwice ==
    \A i, j \in 2..Len(ex_stack) : i # j => ex_stack[i].folder # ex_stack[j].folder

Ended == ex_pc \in {"done", "failed"}

\* every folder has an id that is not the empty string
IdsPresent == \A f \in Range(folders) : f.id # <<>>

====
